---- MODULE Spec2Model ----
(***************************************************************************)
(* COPRA label propagation (src/src/copra.hxx): the per-vertex community   *)
(* scan / selection and the two affected-vertex detectors.                 *)
(*                                                                         *)
(* Values of the weight type V are modelled as exact non-negative          *)
(* rationals <<n, d>> in lowest terms; the two non-finite values a         *)
(* floating division can produce are NaN = <<0, 0>> and Inf = <<1, 0>>.    *)
(* Vertex and community ids are 0 .. S-1.  A Labelset is a sequence of L   *)
(* pairs <<c, b>>; C++ index i is TLA+ index i+1.                          *)
(***************************************************************************)
EXTENDS Integers, Sequences, FiniteSets, TLC

\* ---------------------------------------------------------------- bounds
S == 3                  \* span of the graph: vertices are 0 .. S-1
MaxW == 2               \* edge weights passed to a scan call are 0 .. MaxW
MaxScan == 3            \* copraScanCommunity calls in one behaviour
MaxChoose == 1          \* Selector invocations in one behaviour
MaxBatch == 2           \* deletions plus insertions in one batch update

L == 2                  \* Labelset capacity (the template parameter L)

maxMembership == L      \* CopraOptions::maxMembership defaults to the capacity

Vertex == 0 .. (S - 1)
NoEdge == 0 - 1         \* x[u][v] = NoEdge: no edge u -> v

\* ------------------------------------------------- arithmetic of type V
Zero == <<0, 1>>
One == <<1, 1>>
NaN == <<0, 0>>
Inf == <<1, 0>>

RECURSIVE GCD(_, _)
GCD(m, n) == IF n = 0 THEN m ELSE GCD(n, m % n)

Rat(n, d) == LET g == GCD(n, d) IN <<n \div g, d \div g>>
FromInt(w) == <<w, 1>>
IsNaN(p) == p = NaN
IsInf(p) == p = Inf
IsFinite(p) == p[2] # 0

\* !b : true exactly for a zero value (NaN and Inf are not zero)
IsZero(p) == p = Zero

\* p + q
RAdd(p, q) ==
  IF IsNaN(p) \/ IsNaN(q) THEN NaN
  ELSE IF IsInf(p) \/ IsInf(q) THEN Inf
  ELSE Rat(p[1] * q[2] + q[1] * p[2], p[2] * q[2])

\* p * q
RMul(p, q) ==
  IF IsNaN(p) \/ IsNaN(q) THEN NaN
  ELSE IF IsInf(p) \/ IsInf(q)
    THEN (IF IsZero(p) \/ IsZero(q) THEN NaN ELSE Inf)
  ELSE Rat(p[1] * q[1], p[2] * q[2])

\* p / q, with the IEEE results of a division by zero
RDiv(p, q) ==
  IF IsNaN(p) \/ IsNaN(q) THEN NaN
  ELSE IF IsInf(q) THEN (IF IsInf(p) THEN NaN ELSE Zero)
  ELSE IF IsInf(p) THEN Inf
  ELSE IF IsZero(q) THEN (IF IsZero(p) THEN NaN ELSE Inf)
  ELSE Rat(p[1] * q[2], p[2] * q[1])

\* p < q : every comparison with NaN is false
RLess(p, q) ==
  IF IsNaN(p) \/ IsNaN(q) THEN FALSE
  ELSE IF IsInf(p) THEN FALSE
  ELSE IF IsInf(q) THEN TRUE
  ELSE p[1] * q[2] < q[1] * p[2]

\* --------------------------------------------------------------- Labelset
\* A value-initialised Labelset: every pair is (K(), V()).
EmptyLabelset == [i \in 1 .. L |-> <<0, Zero>>]

\* vcom[u] = {make_pair(u, V(1))}: entry 0 set, the rest value-initialised.
SelfLabelset(u) == [i \in 1 .. L |-> IF i = 1 THEN <<u, One>> ELSE <<0, Zero>>]

copraInitialize(vc) == [u \in Vertex |-> SelfLabelset(u)]

\* The entries before the first zero coefficient (the range-for with break).
RECURSIVE PopLen(_, _)
PopLen(ls, i) ==
  IF i > L THEN L
  ELSE IF IsZero(ls[i][2]) THEN i - 1
  ELSE PopLen(ls, i + 1)

\* ------------------------------------------------------------------ graph
\* forEachEdge(u, ...) visits the out-edges of u in ascending key order.
RECURSIVE EdgesFrom(_, _, _)
EdgesFrom(g, u, v) ==
  IF v >= S THEN <<>>
  ELSE IF g[u][v] = NoEdge THEN EdgesFrom(g, u, v + 1)
  ELSE <<v>> \o EdgesFrom(g, u, v + 1)

Edges(g, u) == EdgesFrom(g, u, 0)
Neighbors(g, u) == {v \in Vertex : g[u][v] # NoEdge}

RECURSIVE SumEdges(_, _, _)
SumEdges(g, u, es) ==
  IF es = <<>> THEN Zero
  ELSE RAdd(FromInt(g[u][Head(es)]), SumEdges(g, u, Tail(es)))

copraVertexWeights(g) == [u \in Vertex |-> SumEdges(g, u, Edges(g, u))]

\* ---------------------------------------------------------------- scanner
\* The scratch is a record [vcs, vcout].
ClearedScratch == [vcs |-> <<>>, vcout |-> [c \in Vertex |-> Zero]]

\* The labelset whose entries one copraScanCommunity call walks.
ScannedLabelset(vc, u, v) == vc[u]

\* One step of the loop body: push on a zero accumulator, then add w*b.
ScanEntry(st, c, b, w) ==
  [vcs |-> IF IsZero(st.vcout[c]) THEN Append(st.vcs, c) ELSE st.vcs,
   vcout |-> [st.vcout EXCEPT ![c] = RAdd(@, RMul(w, b))]]

RECURSIVE ScanLabels(_, _, _, _)
ScanLabels(st, ls, w, i) ==
  IF i > L THEN st
  ELSE IF IsZero(ls[i][2]) THEN st
  ELSE ScanLabels(ScanEntry(st, ls[i][1], ls[i][2], w), ls, w, i + 1)

copraScanCommunity(st, u, v, w, vc, SELF) ==
  IF ~SELF /\ u = v THEN st
  ELSE ScanLabels(st, ScannedLabelset(vc, u, v), w, 1)

RECURSIVE ScanEdges(_, _, _, _, _, _)
ScanEdges(st, g, u, es, vc, SELF) ==
  IF es = <<>> THEN st
  ELSE ScanEdges(copraScanCommunity(st, u, Head(es), FromInt(g[u][Head(es)]), vc, SELF),
                 g, u, Tail(es), vc, SELF)

copraScanCommunities(st, g, u, vc, SELF) == ScanEdges(st, g, u, Edges(g, u), vc, SELF)

Range(s) == {s[i] : i \in 1 .. Len(s)}

copraClearScan(st) ==
  [vcs |-> <<>>,
   vcout |-> [c \in Vertex |-> IF c \in Range(st.vcs) THEN Zero ELSE st.vcout[c]]]

\* ------------------------------------------------------------------- sort
\* The parity bit of the tie rule: (c ^ d) & 2.
XorBit2(c, d) == IF ((c \div 2) % 2) # ((d \div 2) % 2) THEN 2 ELSE 0

\* The comparator fl of copraSortScan.
fl(vcout, c, d, STRICT) ==
  \/ RLess(vcout[c], vcout[d])
  \/ (~STRICT /\ vcout[c] = vcout[d] /\ ~IsNaN(vcout[c]) /\ XorBit2(c, d) # 0)

RemoveAt(s, i) == SubSeq(s, 1, i - 1) \o SubSeq(s, i + 1, Len(s))

\* sortValues(vcs, fl), taken as a comparison sort under the "less" fl (its
\* code is in _main.hxx): the orders such a sort can leave.  An element
\* may come first when no other element is ordered strictly before it (fl
\* one way and not the other); elements fl does not separate, or orders both
\* ways, may end in any order (the sort is not stable, and fl is not a strict
\* weak order on parity ties).
RECURSIVE sortValues(_, _, _)
sortValues(s, vcout, STRICT) ==
  IF s = <<>> THEN {<<>>}
  ELSE UNION {
    {<<s[i]>> \o t : t \in sortValues(RemoveAt(s, i), vcout, STRICT)} :
      i \in {k \in 1 .. Len(s) :
               \A j \in 1 .. Len(s) :
                 ~(fl(vcout, s[j], s[k], STRICT) /\ ~fl(vcout, s[k], s[j], STRICT))}}

copraSortScan(st, STRICT) ==
  {[vcs |-> p, vcout |-> st.vcout] : p \in sortValues(st.vcs, st.vcout, STRICT)}

\* --------------------------------------------------------------- selector
\* The state of copraChooseCommunity: labs, the count n, the total w, and
\* oob, set when labs[n++] stores at an index >= L (a write past the array).
ChooseStart == [labs |-> EmptyLabelset, n |-> 0, w |-> Zero, oob |-> FALSE]

\* labs[n++] = {c, vcout[c]}; w += vcout[c];
PutLabel(st, c, wc) ==
  [labs |-> IF st.n < L THEN [st.labs EXCEPT ![st.n + 1] = <<c, wc>>] ELSE st.labs,
   n |-> st.n + 1,
   w |-> RAdd(st.w, wc),
   oob |-> st.oob \/ st.n >= L]

\* 1. Find labels above threshold.
RECURSIVE AboveThreshold(_, _, _, _, _)
AboveThreshold(st, vcs, vcout, WTH, i) ==
  IF i > Len(vcs) THEN st
  ELSE IF RLess(vcout[vcs[i]], WTH) THEN AboveThreshold(st, vcs, vcout, WTH, i + 1)
  ELSE AboveThreshold(PutLabel(st, vcs[i], vcout[vcs[i]]), vcs, vcout, WTH, i + 1)

\* 2. If no labels above threshold, find best label below threshold.
BelowThreshold(st, vcs, vcout) ==
  IF st.n = 0 /\ vcs # <<>> THEN PutLabel(st, vcs[1], vcout[vcs[1]]) ELSE st

\* 3. Normalize labels, such that belonging coefficient sums to 1.
Normalize(st) ==
  [st EXCEPT !.labs = [i \in 1 .. L |->
     IF i <= st.n THEN <<st.labs[i][1], RDiv(st.labs[i][2], st.w)>> ELSE st.labs[i]]]

\* 4. If no label, use your own label (join your own community).
OwnLabelMissing(st, u) == st

OwnLabel(st, u) ==
  IF st.n = 0 THEN [st EXCEPT !.labs = [st.labs EXCEPT ![1] = <<u, One>>]] ELSE st

copraChooseCommunity(u, vcs, vcout, WTH) ==
  OwnLabel(Normalize(BelowThreshold(AboveThreshold(ChooseStart, vcs, vcout, WTH, 1),
                                    vcs, vcout)), u)

\* What `a` can hold once the call returns.  A call that stored past the end
\* of labs has undefined behaviour: `a` may hold the first L labels as
\* computed, or anything the clobbered frame yields (here: an empty labelset
\* or the vertex's own label).
ChooseOutcomes(u, r) ==
  IF r.oob THEN {r.labs, EmptyLabelset, SelfLabelset(u)} ELSE {r.labs}

copraBestCommunities(vc) == [u \in Vertex |-> vc[u][1][1]]

\* ------------------------------------------------------------------ state
VARIABLES
  x,           \* the graph: x[u][v] is the weight of edge u -> v, or NoEdge
  vtot,        \* total edge weight of each vertex
  vcom,        \* the Labelset of each vertex
  vcs,         \* scratch: the touched-community list
  vcout,       \* scratch: accumulated weight by community
  oob,         \* a store past the end of a Labelset has happened
  last,        \* the last call made: [op, u, self, fresh, wth]; fresh: the call
               \* is, or follows, copraScanCommunities(u) on a cleared scratch
  sorted,      \* copraSortScan ran since the last scan or clear
  visited,     \* community ids the scan calls walked since the last clear
  ncalls,      \* copraScanCommunity calls so far
  nchoose,     \* Selector invocations so far
  deletions,   \* batch: sequence of <<u, v>>
  insertions,  \* batch: sequence of <<u, v, w>>
  B,           \* belonging coefficient threshold
  dsFlags,     \* result of copraAffectedVerticesDeltaScreening
  frFlags,     \* result of copraAffectedVerticesFrontier
  ran          \* the detectors that have returned

vars == <<x, vtot, vcom, vcs, vcout, oob, last, sorted, visited, ncalls, nchoose,
          deletions, insertions, B, dsFlags, frFlags, ran>>

batchVars == <<deletions, insertions, B, dsFlags, frFlags, ran>>

\* An undirected graph from a set of <<u, v, w>>.
Graph(es) ==
  [u \in Vertex |-> [v \in Vertex |->
     IF \E e \in es : (e[1] = u /\ e[2] = v) \/ (e[1] = v /\ e[2] = u)
     THEN (CHOOSE e \in es : (e[1] = u /\ e[2] = v) \/ (e[1] = v /\ e[2] = u))[3]
     ELSE NoEdge]]

NoFlags == [u \in Vertex |-> FALSE]
Call(op, u, self, fresh, wth) == [op |-> op, u |-> u, self |-> self, fresh |-> fresh, wth |-> wth]
NoCall == Call("none", 0, FALSE, FALSE, Zero)

\* Graphs the scan and selection are run on: the path 0-1-2, a graph with a
\* self-loop-only vertex and a zero-weight edge, a star, and a graph with an
\* isolated vertex.
ScanGraphs ==
  {Graph({<<0, 1, 1>>, <<1, 2, 1>>}),
   Graph({<<0, 0, 1>>, <<1, 2, 0>>}),
   Graph({<<0, 1, 2>>, <<0, 2, 1>>}),
   Graph({<<0, 1, 1>>})}

Weights == {FromInt(w) : w \in 0 .. MaxW}
Thresholds == {FromInt(0), FromInt(1), FromInt(2 * MaxW + 1)}

\* State after construction: vector<Labelset>(S), vector<V>(S), empty vcs.
InitWith(graphs) ==
  /\ x \in graphs
  /\ vtot = copraVertexWeights(x)
  /\ vcom = [u \in Vertex |-> EmptyLabelset]
  /\ vcs = <<>>
  /\ vcout = [c \in Vertex |-> Zero]
  /\ oob = FALSE
  /\ last = NoCall
  /\ sorted = FALSE
  /\ visited = {}
  /\ ncalls = 0
  /\ nchoose = 0
  /\ deletions = <<>>
  /\ insertions = <<>>
  /\ B = Zero
  /\ dsFlags = NoFlags
  /\ frFlags = NoFlags
  /\ ran = {}

Scratch == [vcs |-> vcs, vcout |-> vcout]

\* The ids one copraScanCommunity call walks.
Walked(u, v, vc, SELF) ==
  IF ~SELF /\ u = v THEN {}
  ELSE LET ls == ScannedLabelset(vc, u, v) IN {ls[i][1] : i \in 1 .. PopLen(ls, 1)}

Initialize ==
  /\ ~oob
  /\ vcom' = copraInitialize(vcom)
  /\ last' = Call("Initialize", 0, FALSE, FALSE, Zero)
  /\ UNCHANGED <<x, vtot, vcs, vcout, oob, sorted, visited, ncalls, nchoose>>
  /\ UNCHANGED batchVars

ScanCommunity(u, v, w, SELF) ==
  /\ ~oob
  /\ ncalls < MaxScan
  /\ LET st == copraScanCommunity(Scratch, u, v, w, vcom, SELF) IN
       /\ vcs' = st.vcs
       /\ vcout' = st.vcout
  /\ visited' = visited \cup Walked(u, v, vcom, SELF)
  /\ ncalls' = ncalls + 1
  /\ sorted' = FALSE
  /\ last' = Call("ScanCommunity", 0, FALSE, FALSE, Zero)
  /\ UNCHANGED <<x, vtot, vcom, oob, nchoose>>
  /\ UNCHANGED batchVars

ScanCommunities(u, SELF) ==
  /\ ~oob
  /\ ncalls + Len(Edges(x, u)) <= MaxScan
  /\ LET st == copraScanCommunities(Scratch, x, u, vcom, SELF) IN
       /\ vcs' = st.vcs
       /\ vcout' = st.vcout
  /\ visited' = visited \cup UNION {Walked(u, v, vcom, SELF) : v \in Neighbors(x, u)}
  /\ ncalls' = ncalls + Len(Edges(x, u))
  /\ sorted' = FALSE
  /\ last' = Call("ScanCommunities", u, SELF, Scratch = ClearedScratch, Zero)
  /\ UNCHANGED <<x, vtot, vcom, oob, nchoose>>
  /\ UNCHANGED batchVars

SortScan(STRICT) ==
  /\ ~oob
  /\ \E st \in copraSortScan(Scratch, STRICT) :
       /\ vcs' = st.vcs
       /\ vcout' = st.vcout
  /\ sorted' = TRUE
  /\ last' = Call("SortScan", last.u, last.self,
                  last.op \in {"ScanCommunities", "SortScan"} /\ last.fresh, Zero)
  /\ UNCHANGED <<x, vtot, vcom, oob, visited, ncalls, nchoose>>
  /\ UNCHANGED batchVars

ClearScan ==
  /\ ~oob
  /\ LET st == copraClearScan(Scratch) IN
       /\ vcs' = st.vcs
       /\ vcout' = st.vcout
  /\ visited' = {}
  /\ sorted' = FALSE
  /\ last' = Call("ClearScan", 0, FALSE, FALSE, Zero)
  /\ UNCHANGED <<x, vtot, vcom, oob, ncalls, nchoose>>
  /\ UNCHANGED batchVars

\* copraChooseCommunity(vcom[u], u, vcs, vcout, WTH): the driver stores the
\* selection in the vertex's own Labelset.
ChooseCommunity(u, WTH) ==
  /\ ~oob
  /\ nchoose < MaxChoose
  /\ LET r == copraChooseCommunity(u, vcs, vcout, WTH) IN
       /\ \E a \in ChooseOutcomes(u, r) : vcom' = [vcom EXCEPT ![u] = a]
       /\ oob' = r.oob
  /\ nchoose' = nchoose + 1
  /\ last' = Call("ChooseCommunity", u, last.self,
                  last.op \in {"ScanCommunities", "SortScan"} /\ last.fresh /\ last.u = u, WTH)
  /\ UNCHANGED <<x, vtot, vcs, vcout, sorted, visited, ncalls>>
  /\ UNCHANGED batchVars

NextScan ==
  \/ Initialize
  \/ \E u, v \in Vertex, w \in Weights, SELF \in BOOLEAN : ScanCommunity(u, v, w, SELF)
  \/ \E u \in Vertex, SELF \in BOOLEAN : ScanCommunities(u, SELF)
  \/ \E STRICT \in BOOLEAN : SortScan(STRICT)
  \/ ClearScan
  \/ \E u \in Vertex, WTH \in Thresholds : ChooseCommunity(u, WTH)

InitScan == InitWith(ScanGraphs)

Spec == InitScan /\ [][NextScan]_vars

\* One vertex update of a propagation sweep: clear, scan the vertex, sort
\* (optional), select.  The graphs are the undirected graphs on the vertices
\* 0, 1, 2 whose edges weigh 0 or 1 (vertex 0 may carry a self-loop); further
\* vertices are isolated.
Core == {0, 1, 2}
EdgeChoices == {NoEdge, 0, 1}

CoreEdges == {<<0, 0>>, <<0, 1>>, <<0, 2>>, <<1, 2>>}

SweepGraphs ==
  {Graph({<<e[1], e[2], f[e]>> : e \in {d \in CoreEdges : f[d] # NoEdge}}) :
     f \in {h \in [CoreEdges -> EdgeChoices] : h[<<0, 0>>] # 0}}

InitSweep == InitWith(SweepGraphs)

SweepInitialize == last.op \in {"none", "ChooseCommunity"} /\ Initialize
SweepClear == last.op \in {"none", "Initialize", "ChooseCommunity"} /\ ClearScan
SweepScan(u, SELF) == last.op = "ClearScan" /\ ScanCommunities(u, SELF)
SweepSort(STRICT) == last.op = "ScanCommunities" /\ SortScan(STRICT)
SweepChoose(WTH) ==
  last.op \in {"ScanCommunities", "SortScan"} /\ ChooseCommunity(last.u, WTH)

NextSweep ==
  \/ SweepInitialize
  \/ SweepClear
  \/ \E u \in Vertex, SELF \in BOOLEAN : SweepScan(u, SELF)
  \/ \E STRICT \in BOOLEAN : SweepSort(STRICT)
  \/ \E WTH \in Thresholds : SweepChoose(WTH)

SpecSweep == InitSweep /\ [][NextSweep]_vars

\* ------------------------------------------------------ affected vertices
NoMarks ==
  [vertices |-> NoFlags, neighbors |-> NoFlags, communities |-> NoFlags, oob |-> FALSE]

\* vertices[u] = true; neighbors[u] = true; communities[c] = true;
Mark(m, u, c) ==
  [m EXCEPT !.vertices[u] = TRUE, !.neighbors[u] = TRUE, !.communities[c] = TRUE]

\* The body of the deletions loop of delta-screening.
DeletionMarkAcross(m, e, vc) ==
  LET cu == vc[e[1]][1][1]
      cv == vc[e[2]][1][1]
  IN  IF cu = cv THEN m ELSE Mark(m, e[1], cv)

DeletionMark(m, e, vc) ==
  LET cu == vc[e[1]][1][1]
      cv == vc[e[2]][1][1]
  IN  IF cu # cv THEN m ELSE Mark(m, e[1], cv)

RECURSIVE DeletionLoop(_, _, _)
DeletionLoop(m, dels, vc) ==
  IF dels = <<>> THEN m
  ELSE DeletionLoop(DeletionMark(m, Head(dels), vc), Tail(dels), vc)

\* The inner loop: the insertions i, i+1, ... that share the source u.
RECURSIVE RunScan(_, _, _, _, _)
RunScan(st, ins, i, u, vc) ==
  IF i > Len(ins) \/ ins[i][1] # u THEN [i |-> i, st |-> st]
  ELSE LET v == ins[i][2]
           w == FromInt(ins[i][3])
           cu == vc[u][1][1]
           cv == vc[v][1][1]
       IN  IF cu = cv THEN RunScan(st, ins, i + 1, u, vc)
           ELSE RunScan(copraScanCommunity(st, u, v, w, vc, FALSE), ins, i + 1, u, vc)

\* The outer loop over the runs of insertions.
RECURSIVE InsertionLoop(_, _, _, _, _, _, _)
InsertionLoop(m, st, ins, i, vc, vt, b) ==
  IF i > Len(ins) THEN m
  ELSE LET u == ins[i][1]
           run == RunScan(copraClearScan(st), ins, i, u, vc)
           r == copraChooseCommunity(u, run.st.vcs, run.st.vcout, RMul(b, vt[u]))
           cu == vc[u][1][1]
           cl == r.labs[1][1]
           m1 == [m EXCEPT !.oob = @ \/ r.oob]
       IN  InsertionLoop(IF cl = cu THEN m1 ELSE Mark(m1, u, cl),
                         run.st, ins, run.i, vc, vt, b)

\* The final pass over the vertices.
Spread(m, g, vc) ==
  [u \in Vertex |->
     \/ m.vertices[u]
     \/ \E t \in Vertex : m.neighbors[t] /\ u \in Neighbors(g, t)
     \/ m.communities[vc[u][1][1]]]

copraAffectedVerticesDeltaScreening(g, dels, ins, vc, vt, b) ==
  LET m == InsertionLoop(DeletionLoop(NoMarks, dels, vc), ClearedScratch, ins, 1, vc, vt, b)
  IN  [vertices |-> Spread(m, g, vc), oob |-> m.oob]

RECURSIVE FrontierDeletions(_, _, _)
FrontierDeletions(f, dels, vc) ==
  IF dels = <<>> THEN f
  ELSE LET e == Head(dels) IN
       FrontierDeletions(IF vc[e[1]][1][1] # vc[e[2]][1][1] THEN f
                         ELSE [f EXCEPT ![e[1]] = TRUE], Tail(dels), vc)

RECURSIVE FrontierInsertions(_, _, _)
FrontierInsertions(f, ins, vc) ==
  IF ins = <<>> THEN f
  ELSE LET e == Head(ins) IN
       FrontierInsertions(IF vc[e[1]][1][1] = vc[e[2]][1][1] THEN f
                          ELSE [f EXCEPT ![e[1]] = TRUE], Tail(ins), vc)

copraAffectedVerticesFrontier(g, dels, ins, vc) ==
  FrontierInsertions(FrontierDeletions(NoFlags, dels, vc), ins, vc)

\* Batches: sequences of at most n edges, sorted by source vertex id.
RECURSIVE SortedBatches(_, _)
SortedBatches(E, n) ==
  IF n <= 0 THEN {<<>>}
  ELSE LET P == SortedBatches(E, n - 1) IN
       P \cup {Append(s, e) : s \in {t \in P : Len(t) = n - 1},
                              e \in E}

BySource(s) == \A i \in 1 .. Len(s) - 1 : s[i][1] <= s[i + 1][1]

\* The edges of a batch join the vertices 0, 1, 2.
DeletionEdges == {<<u, v>> : u, v \in Core} \ {<<u, u>> : u \in Core}
InsertionEdges == {<<e[1], e[2], 5>> : e \in DeletionEdges}

\* Labelset tables of a converged run: every vertex holds one community with
\* coefficient 1, or (vertex 0 only) two communities with 2/3 and 1/3.
Single(c) == [i \in 1 .. L |-> IF i = 1 THEN <<c, One>> ELSE <<0, Zero>>]
Pair(c, d) ==
  [i \in 1 .. L |-> IF i = 1 THEN <<c, Rat(2, 3)>>
                    ELSE IF i = 2 THEN <<d, Rat(1, 3)>> ELSE <<0, Zero>>]

BatchLabelsets ==
  {vc \in [Vertex -> {Single(c) : c \in Vertex} \cup {Pair(c, (c + 1) % S) : c \in Vertex}] :
     \A u \in Vertex : u # 0 => vc[u][2][2] = Zero}

BatchGraphs ==
  {Graph({<<0, 1, 1>>, <<1, 2, 1>>}),
   Graph({<<0, 2, 5>>}),
   Graph({<<0, 1, 1>>, <<0, 2, 5>>, <<1, 2, 1>>})}

BatchB == {Rat(1, 10), FromInt(2)}

InitBatchWith(maxInsertions) ==
  /\ x \in BatchGraphs
  /\ vtot = copraVertexWeights(x)
  /\ vcom \in BatchLabelsets
  /\ vcs = <<>>
  /\ vcout = [c \in Vertex |-> Zero]
  /\ oob = FALSE
  /\ last = NoCall
  /\ sorted = FALSE
  /\ visited = {}
  /\ ncalls = 0
  /\ nchoose = 0
  /\ deletions \in {s \in SortedBatches(DeletionEdges, MaxBatch) : BySource(s)}
  /\ insertions \in {s \in SortedBatches(InsertionEdges, maxInsertions - Len(deletions)) :
                       BySource(s)}
  /\ B \in BatchB
  /\ dsFlags = NoFlags
  /\ frFlags = NoFlags
  /\ ran = {}

InitBatch == InitBatchWith(MaxBatch)

scanVars == <<x, vtot, vcom, vcs, vcout, last, sorted, visited, ncalls, nchoose>>

\* The scratch of delta-screening is local to the call.  A Selector call that
\* stored past the end of labs leaves the returned flags undefined.
DeltaScreening ==
  /\ ~oob
  /\ "ds" \notin ran
  /\ LET r == copraAffectedVerticesDeltaScreening(x, deletions, insertions, vcom, vtot, B) IN
       /\ oob' = r.oob
       /\ IF r.oob THEN dsFlags' \in [Vertex -> BOOLEAN] ELSE dsFlags' = r.vertices
  /\ ran' = ran \cup {"ds"}
  /\ UNCHANGED <<deletions, insertions, B, frFlags>>
  /\ UNCHANGED scanVars

Frontier ==
  /\ ~oob
  /\ "fr" \notin ran
  /\ frFlags' = copraAffectedVerticesFrontier(x, deletions, insertions, vcom)
  /\ ran' = ran \cup {"fr"}
  /\ UNCHANGED <<deletions, insertions, B, dsFlags, oob>>
  /\ UNCHANGED scanVars

NextBatch == DeltaScreening \/ Frontier

SpecBatch == InitBatch /\ [][NextBatch]_vars

\* Batches of deletions only.
InitDeletions == InitBatchWith(0)

NextDeletions == DeltaScreening

SpecDeletions == InitDeletions /\ [][NextDeletions]_vars

\* ================================================================= claims
\* What the selection of the last ChooseCommunity call computed (the call
\* leaves vcs and vcout as they were).
LastChoice == copraChooseCommunity(last.u, vcs, vcout, last.wth)

RECURSIVE SumCoef(_, _)
SumCoef(ls, i) == IF i < 1 THEN Zero ELSE RAdd(ls[i][2], SumCoef(ls, i - 1))

\* The coefficient a labelset gives community c (zero when c is not in it).
RECURSIVE CoefOf(_, _, _)
CoefOf(ls, c, i) ==
  IF i < 1 THEN Zero
  ELSE RAdd(IF ls[i][1] = c THEN ls[i][2] ELSE Zero, CoefOf(ls, c, i - 1))

Coef(ls, c) == CoefOf(ls, c, PopLen(ls, 1))
Primary(u) == copraBestCommunities(vcom)[u]
NoDup(s) == \A i, j \in 1 .. Len(s) : i # j => s[i] # s[j]

\* C1: after a Selector call on a scanned scratch (every touched community
\* of positive weight; zero weights are C9's case) the stored Labelset has at
\* most maxMembership populated entries, their coefficients sum to 1, and no
\* entry was stored at an index >= L.
SelectorWithinCapacity ==
  (/\ last.op = "ChooseCommunity"
   /\ \A i \in 1 .. Len(vcs) : RLess(Zero, vcout[vcs[i]]))
    => /\ ~oob
       /\ PopLen(vcom[last.u], 1) <= maxMembership
       /\ SumCoef(vcom[last.u], PopLen(vcom[last.u], 1)) = One

\* C2: scanning vertex u (self-loops excluded) from a cleared scratch leaves
\* in vcout[c] the sum, over the edges u -> v with v # u, of w times the
\* coefficient of c in the NEIGHBOR v's Labelset.
RECURSIVE NeighborWeight(_, _, _, _, _)
NeighborWeight(g, u, es, vc, c) ==
  IF es = <<>> THEN Zero
  ELSE RAdd(IF Head(es) = u THEN Zero
            ELSE RMul(FromInt(g[u][Head(es)]), Coef(vc[Head(es)], c)),
            NeighborWeight(g, u, Tail(es), vc, c))

ScanSumsNeighborLabels ==
  (last.op = "ScanCommunities" /\ last.fresh /\ ~last.self)
    => \A c \in Vertex : vcout[c] = NeighborWeight(x, last.u, Edges(x, last.u), vcom, c)

\* C3: every vertex the frontier detector flags is flagged by delta-screening
\* on the same graph, labelsets and batch.
FrontierWithinDeltaScreening ==
  (ran = {"ds", "fr"} /\ ~oob) => \A t \in Vertex : frFlags[t] => dsFlags[t]

\* C4: for each run of insertions with source u, the weights are summed from
\* the Labelsets of the destinations whose primary community differs from
\* u's; when the heaviest community c so reached differs from u's primary
\* community, u, the neighbors of u and the vertices of primary community c
\* are flagged.
RECURSIVE InsertedWeight(_, _, _, _)
InsertedWeight(ins, i, u, c) ==
  IF i < 1 THEN Zero
  ELSE RAdd(IF ins[i][1] = u /\ Primary(ins[i][2]) # Primary(u)
            THEN RMul(FromInt(ins[i][3]), Coef(vcom[ins[i][2]], c)) ELSE Zero,
            InsertedWeight(ins, i - 1, u, c))

InsertedTouched(u) ==
  {c \in Vertex : \E i \in 1 .. Len(insertions) :
     /\ insertions[i][1] = u
     /\ Primary(insertions[i][2]) # Primary(u)
     /\ ~IsZero(Coef(vcom[insertions[i][2]], c))}

InsertedHeaviest(u) ==
  {c \in InsertedTouched(u) : \A d \in InsertedTouched(u) :
     ~RLess(InsertedWeight(insertions, Len(insertions), u, c),
            InsertedWeight(insertions, Len(insertions), u, d))}

InsertionRunFlagsNewCommunity ==
  ("ds" \in ran /\ ~oob) =>
    \A i \in 1 .. Len(insertions) :
      LET u == insertions[i][1] IN
        (InsertedHeaviest(u) # {} /\ Primary(u) \notin InsertedHeaviest(u))
          => \E c \in InsertedHeaviest(u) :
               /\ dsFlags[u]
               /\ \A t \in Neighbors(x, u) : dsFlags[t]
               /\ \A t \in Vertex : Primary(t) = c => dsFlags[t]

\* C5: with no insertions, delta-screening flags exactly: for every deletion
\* (u, v) whose endpoints share the primary community C, the vertex u, the
\* neighbors of u, and the vertices whose primary community is C.
DeletionsFlagExactly ==
  ("ds" \in ran /\ insertions = <<>>) =>
    \A t \in Vertex :
      dsFlags[t] <=>
        \E i \in 1 .. Len(deletions) :
          LET u == deletions[i][1]
              v == deletions[i][2]
          IN  /\ Primary(u) = Primary(v)
              /\ (t = u \/ t \in Neighbors(x, u) \/ Primary(t) = Primary(u))

\* A deletion inside a community next to one across communities: a vertex
\* flagged only as a member of the community, and a vertex left unflagged.
DeletionsFlagged ==
  /\ "ds" \in ran
  /\ insertions = <<>>
  /\ \E i, j \in 1 .. Len(deletions) :
       /\ Primary(deletions[i][1]) = Primary(deletions[i][2])
       /\ Primary(deletions[j][1]) # Primary(deletions[j][2])
       /\ \E t \in Vertex :
            /\ dsFlags[t]
            /\ t # deletions[i][1]
            /\ t \notin Neighbors(x, deletions[i][1])
  /\ \E t \in Vertex : ~dsFlags[t]

\* C6: a vertex with no outgoing edge (or only a self-loop, self-loops being
\* excluded) scanned from a cleared scratch is given, whatever the threshold,
\* the Labelset (u, 1) followed by zero coefficients: the one copraInitialize
\* gives it.
LonelyVertexKeepsOwnLabel ==
  (/\ last.op = "ChooseCommunity"
   /\ last.fresh
   /\ \/ Neighbors(x, last.u) = {}
      \/ (Neighbors(x, last.u) = {last.u} /\ ~last.self))
    => /\ vcom[last.u][1] = <<last.u, One>>
       /\ \A i \in 2 .. L : vcom[last.u][i][2] = Zero
       /\ vcom[last.u] = copraInitialize(vcom)[last.u]

\* The Selector has run, with a positive threshold, for a vertex whose only
\* edge is a self-loop that the scan skipped.
LonelyVertexChosen ==
  /\ last.op = "ChooseCommunity"
  /\ last.fresh
  /\ ~last.self
  /\ Neighbors(x, last.u) = {last.u}
  /\ RLess(Zero, last.wth)
  /\ vcom[last.u] = SelfLabelset(last.u)

\* C7: after copraSortScan and the Selector the populated entries of the
\* stored Labelset are in non-increasing order of coefficient, and entry 0
\* (the community copraBestCommunities returns) has the greatest accumulated
\* weight among the selected communities.
SortedSelectionDescends ==
  (last.op = "ChooseCommunity" /\ sorted /\ ~oob /\ vcs # <<>>)
    => LET ls == vcom[last.u]
           n == PopLen(ls, 1)
       IN  /\ \A i, j \in 1 .. n : i < j => ~RLess(ls[i][2], ls[j][2])
           /\ \A i \in 1 .. n :
                ~RLess(vcout[copraBestCommunities(vcom)[last.u]], vcout[ls[i][1]])

\* C8: when the touched list is not empty and no touched community reaches
\* the threshold, the Selector stores the single entry (c, 1), c a touched
\* community of greatest accumulated weight (stated for positive weights).
FallbackPicksHeaviest ==
  (/\ last.op = "ChooseCommunity"
   /\ vcs # <<>>
   /\ \A i \in 1 .. Len(vcs) : RLess(Zero, vcout[vcs[i]]) /\ RLess(vcout[vcs[i]], last.wth))
    => \E c \in Range(vcs) :
         /\ \A d \in Range(vcs) : ~RLess(vcout[c], vcout[d])
         /\ vcom[last.u] = Single(c)

\* C9: when the candidates of the Selector weigh zero in total, it divides
\* nothing by zero and stores the vertex's own label (u, 1).
ZeroTotalFallsBackToSelf ==
  (last.op = "ChooseCommunity" /\ ~oob /\ LastChoice.n > 0 /\ IsZero(LastChoice.w))
    => /\ vcom[last.u] = SelfLabelset(last.u)
       /\ \A i \in 1 .. L : IsFinite(vcom[last.u][i][2])

\* C10: after scan calls from a cleared scratch (zero weights allowed) the
\* touched list holds every visited community id exactly once; after
\* copraClearScan the accumulator is all zero and the list is empty.
TouchedListIsDistinct ==
  /\ last.op \in {"ScanCommunity", "ScanCommunities"}
       => (NoDup(vcs) /\ Range(vcs) = visited)
  /\ last.op = "ClearScan"
       => (vcs = <<>> /\ \A c \in Vertex : vcout[c] = Zero)

====
